---- MODULE Spec2Model ----
(***************************************************************************)
(* A model of the finite-domain CSP solver of src/csp.py: the constructor  *)
(* CSP.__init__, arc consistency (CSP.ac_3 with CSP._revise), backtracking *)
(* search (CSP.backtracking_search with its helpers) and alldiff, together *)
(* with the Latin-square instance built the way src/test_ac3.py builds its *)
(* Sudoku instance.                                                        *)
(***************************************************************************)
EXTENDS Integers, Sequences, FiniteSets, TLC

\* ------------------------------------------------------------------ bounds

\* Domain values are the integers 1..MaxVal.
MaxVal == 2
\* The longest edge list handed to the constructor.
MaxEdges == 3
\* How many times ac_3() is called on one instance.
MaxAc3Calls == 2
\* The longest list handed to alldiff.
MaxList == 4
\* Side of the Latin square.
LatinWidth == 4

\* The variable names of the small instances, in declared order.
Names == <<"A", "B", "C">>

Values == 1 .. MaxVal

Range(s) == {s[i] : i \in DOMAIN s}

\* All sequences over S of length at most n without a repeated element.
DistinctSeqs(S, n) ==
  {s \in UNION {[1 .. k -> S] : k \in 0 .. n} :
     \A i, j \in DOMAIN s : i # j => s[i] # s[j]}

\* ----------------------------------------------------------------- state

VARIABLES
  variables,                \* self.variables: the declared variable list
  domains,                  \* self.domains: variable -> set of values
  edges,                    \* the constructor's edges argument
  binary_constraints,       \* self.binary_constraints: key -> set of pairs
  keys,                     \* the keys of binary_constraints in dict order
  pc,                       \* where the instance's client is
  bi,                       \* constructor: index of the next edge
  queue,                    \* ac_3's work queue (FIFO)
  ac3Ret,                   \* the values ac_3() returned, one per call
  callDoms,                 \* the domains at each call of ac_3()
  retDoms,                  \* the domains at each return of ac_3()
  assignment,               \* backtrack's assignment dict
  stack,                    \* the active backtrack() invocations past line 138
  searchResult,             \* what backtracking_search() returned
  total_backtrack_calls,    \* self.total_backtrack_calls
  total_failed_backtracks,  \* self.total_failed_backtracks
  searchDoms,               \* the domains at the call of backtracking_search()
  reviseCall                \* the direct calls of _revise(): arguments,
                            \* domains before, returned value

vars ==
  <<variables, domains, edges, binary_constraints, keys, pc, bi, queue,
    ac3Ret, callDoms, retDoms, assignment, stack, searchResult,
    total_backtrack_calls, total_failed_backtracks, searchDoms, reviseCall>>

EmptyMap == [v \in {} |-> {}]

\* ----------------------------------------------------------- constructor

\* Lines 44-48: the set stored under key (v1, v2): every (value1, value2)
\* with value1 in domains[v1], value2 in domains[v2], value1 != value2, and
\* its mirror image (value2, value1).
\* A faulty variant, the inner loop running over variable1's domain again:
\* C9 tells it from CompatiblePairs.
CompatiblePairsSameVariable(doms, v1, v2) ==
  UNION {UNION {{<<value1, value2>>, <<value2, value1>>} :
                  value2 \in doms[v1] \ {value1}} :
           value1 \in doms[v1]}

\* The code.
CompatiblePairs(doms, v1, v2) ==
  UNION {UNION {{<<value1, value2>>, <<value2, value1>>} :
                  value2 \in doms[v2] \ {value1}} :
           value1 \in doms[v1]}

\* Lines 44-45: the lookups self.domains[variable1] and, inside the loop over
\* variable1's values, self.domains[variable2] raise KeyError for a name
\* that has no domain entry.  The second lookup only happens when variable1
\* has at least one value.
EdgeRaises(doms, e) ==
  \/ e[1] \notin DOMAIN doms
  \/ doms[e[1]] # {} /\ e[2] \notin DOMAIN doms

\* Line 43 on the dict order: a new key goes last, a known key keeps its place.
KeysAfter(ks, e) == IF e \in Range(ks) THEN ks ELSE Append(ks, e)

\* Lines 42-48 for one edge that does not raise.
ConstraintsAfter(bc, doms, e) ==
  [k \in DOMAIN bc \cup {e} |->
     IF k = e THEN CompatiblePairs(doms, e[1], e[2]) ELSE bc[k]]

\* Lines 41-48 for a whole edge list that does not raise.
RECURSIVE BuildConstraints(_, _, _)
BuildConstraints(doms, es, n) ==
  IF n = 0 THEN EmptyMap
  ELSE LET before == BuildConstraints(doms, es, n - 1)
       IN ConstraintsAfter(before, doms, es[n])

RECURSIVE BuildKeys(_, _)
BuildKeys(es, n) ==
  IF n = 0 THEN <<>>
  ELSE LET before == BuildKeys(es, n - 1)
       IN KeysAfter(before, es[n])

\* Lines 42-48: the constructor's loop takes the next edge.  Line 43 stores
\* the key with an empty set before the lookups of lines 44-45, which may
\* raise; a raised KeyError leaves the constructor, and no instance exists.
BuildEdge ==
  /\ pc = "build"
  /\ bi <= Len(edges)
  /\ LET e == edges[bi]
     IN /\ keys' = KeysAfter(keys, e)
        /\ IF EdgeRaises(domains, e)
             THEN /\ pc' = "error"
                  /\ binary_constraints' =
                       [k \in DOMAIN binary_constraints \cup {e} |->
                          IF k = e THEN {} ELSE binary_constraints[k]]
                  /\ UNCHANGED bi
             ELSE /\ binary_constraints' =
                       ConstraintsAfter(binary_constraints, domains, e)
                  /\ bi' = bi + 1
                  /\ UNCHANGED pc
  /\ UNCHANGED <<variables, domains, edges, queue, ac3Ret, callDoms, retDoms,
                 assignment, stack, searchResult, total_backtrack_calls,
                 total_failed_backtracks,
                 searchDoms, reviseCall>>

\* Line 42: the edge list is exhausted, the constructor returns the instance.
BuildDone ==
  /\ pc = "build"
  /\ bi > Len(edges)
  /\ pc' = "idle"
  /\ UNCHANGED <<variables, domains, edges, binary_constraints, keys, bi,
                 queue, ac3Ret, callDoms, retDoms, assignment, stack,
                 searchResult, total_backtrack_calls, total_failed_backtracks,
                 searchDoms, reviseCall>>

\* ------------------------------------------------------------------ ac_3

\* Lines 97-107: whether value_i of xi finds a value_j in xj's domain such
\* that the pair is stored under (xi, xj) or else, mirrored, under (xj, xi).
\* With neither key stored no value is ever consistent.
Consistent(doms, bc, xi, xj, value_i) ==
  \E value_j \in doms[xj] :
    IF <<xi, xj>> \in DOMAIN bc
      THEN <<value_i, value_j>> \in bc[<<xi, xj>>]
      ELSE /\ <<xj, xi>> \in DOMAIN bc
           /\ <<value_j, value_i>> \in bc[<<xj, xi>>]

\* Lines 92-111: values_to_remove, as a set.
\* A faulty variant, removing the values that do have a support: C6 tells
\* it from ValuesToRemove.
ValuesToRemoveSupported(doms, bc, xi, xj) ==
  {value_i \in doms[xi] : Consistent(doms, bc, xi, xj, value_i)}

\* The code.
ValuesToRemove(doms, bc, xi, xj) ==
  {value_i \in doms[xi] : ~Consistent(doms, bc, xi, xj, value_i)}

\* Lines 113-115: the domains after _revise(xi, xj).
\* A faulty variant, rebuilding xi's domain from xj's values: C7 tells it
\* from Revised.
RevisedFromNeighbour(doms, bc, xi, xj) ==
  [doms EXCEPT ![xi] = {value_j \in doms[xj] :
                          \E value_i \in doms[xi] : value_i # value_j}]

\* The code.
Revised(doms, bc, xi, xj) ==
  [doms EXCEPT ![xi] = @ \ ValuesToRemove(doms, bc, xi, xj)]

\* Lines 70-74: the arcs put on the queue after xi was revised against xj,
\* in dict order of the keys.
\* A faulty variant, putting no arc back: C5 tells it from Requeue.
RequeueNothing(ks, xi, xj) == <<>>

\* A faulty variant, without the branch of line 71, so that no stored arc
\* (xk, xi) goes back on the queue: C20 tells it from Requeue.
RequeueReversedOnly(ks, xi, xj) ==
  LET touching == SelectSeq(ks, LAMBDA k : k[1] = xi /\ k[2] # xj)
  IN [n \in 1 .. Len(touching) |-> <<touching[n][2], xi>>]

\* The code.
Requeue(ks, xi, xj) ==
  LET touching == SelectSeq(ks, LAMBDA k : \/ k[2] = xi /\ k[1] # xj
                                           \/ k[1] = xi /\ k[2] # xj)
  IN [n \in 1 .. Len(touching) |->
        LET var1 == touching[n][1]
            var2 == touching[n][2]
        IN IF var2 = xi /\ var1 # xj THEN <<var1, xi>> ELSE <<var2, xi>>]

\* Lines 60-62: the initial queue holds the stored keys, once each.
InitialQueue(ks) == ks

\* Line 65: queue.get() takes the head off the queue.
\* A faulty variant, reading the head and leaving it on the queue: C15 tells
\* it from Rest.
RestWithHead(q) == q

\* The code.
Rest(q) == Tail(q)

\* Line 67: len(self.domains[xi]) == 0 after _revise(xi, xj) removed values.
\* A faulty variant, looking at xj's domain: C11 tells it from EmptiedDomain.
EmptiedNeighbour(doms, xi, xj) == doms[xj] = {}

\* The code.
EmptiedDomain(doms, xi, xj) == doms[xi] = {}

\* Lines 59-62: ac_3() is called.
Ac3Call ==
  /\ pc = "idle"
  /\ Len(ac3Ret) < MaxAc3Calls
  /\ pc' = "ac3"
  /\ queue' = InitialQueue(keys)
  /\ callDoms' = Append(callDoms, domains)
  /\ UNCHANGED <<variables, domains, edges, binary_constraints, keys, bi,
                 ac3Ret, retDoms, assignment, stack, searchResult,
                 total_backtrack_calls, total_failed_backtracks,
                 searchDoms, reviseCall>>

\* Lines 64-74: one iteration of the while loop.
\* A faulty variant, in which _revise also strikes the pairs of the removed
\* values from the compatible-pairs set of the key (xi, xj): C18 tells it
\* from Ac3Step.
Ac3StepStrikingPairs ==
  /\ pc = "ac3"
  /\ queue # <<>>
  /\ LET xi == Head(queue)[1]
         xj == Head(queue)[2]
         removed == ValuesToRemove(domains, binary_constraints, xi, xj)
         new == Revised(domains, binary_constraints, xi, xj)
         revised == removed # {}
     IN /\ domains' = new
        /\ binary_constraints' =
             [k \in DOMAIN binary_constraints |->
                IF k = <<xi, xj>>
                  THEN {p \in binary_constraints[k] : p[1] \notin removed}
                  ELSE binary_constraints[k]]
        /\ IF revised /\ EmptiedDomain(new, xi, xj)
             THEN /\ pc' = "idle"
                  /\ queue' = Rest(queue)
                  /\ ac3Ret' = Append(ac3Ret, FALSE)
                  /\ retDoms' = Append(retDoms, new)
             ELSE /\ pc' = "ac3"
                  /\ queue' = IF revised
                                THEN Rest(queue) \o Requeue(keys, xi, xj)
                                ELSE Rest(queue)
                  /\ UNCHANGED <<ac3Ret, retDoms>>
  /\ UNCHANGED <<variables, edges, keys, bi, callDoms, assignment, stack,
                 searchResult, total_backtrack_calls, total_failed_backtracks,
                 searchDoms, reviseCall>>

\* The code.
Ac3Step ==
  /\ pc = "ac3"
  /\ queue # <<>>
  /\ LET xi == Head(queue)[1]
         xj == Head(queue)[2]
         new == Revised(domains, binary_constraints, xi, xj)
         revised == ValuesToRemove(domains, binary_constraints, xi, xj) # {}
     IN /\ domains' = new
        /\ IF revised /\ EmptiedDomain(new, xi, xj)
             THEN /\ pc' = "idle"
                  /\ queue' = Rest(queue)
                  /\ ac3Ret' = Append(ac3Ret, FALSE)
                  /\ retDoms' = Append(retDoms, new)
             ELSE /\ pc' = "ac3"
                  /\ queue' = IF revised
                                THEN Rest(queue) \o Requeue(keys, xi, xj)
                                ELSE Rest(queue)
                  /\ UNCHANGED <<ac3Ret, retDoms>>
  /\ UNCHANGED <<variables, edges, binary_constraints, keys, bi, callDoms,
                 assignment, stack, searchResult, total_backtrack_calls,
                 total_failed_backtracks,
                 searchDoms, reviseCall>>

\* Lines 64 and 75: the queue is empty, ac_3() returns True.
Ac3ReturnTrue ==
  /\ pc = "ac3"
  /\ queue = <<>>
  /\ pc' = "idle"
  /\ ac3Ret' = Append(ac3Ret, TRUE)
  /\ retDoms' = Append(retDoms, domains)
  /\ UNCHANGED <<variables, domains, edges, binary_constraints, keys, bi,
                 queue, callDoms, assignment, stack, searchResult,
                 total_backtrack_calls, total_failed_backtracks,
                 searchDoms, reviseCall>>

\* Lines 77-117: _revise(xi, xj) called by itself on two different
\* declared variables of a constructed instance; it returns True when
\* values_to_remove is not empty.
ReviseCall ==
  /\ pc = "idle"
  /\ reviseCall = <<>>
  /\ \E xi \in Range(variables) : \E xj \in Range(variables) \ {xi} :
       /\ domains' = Revised(domains, binary_constraints, xi, xj)
       /\ reviseCall' =
            <<[xi |-> xi, xj |-> xj, before |-> domains,
               returned |->
                 ValuesToRemove(domains, binary_constraints, xi, xj) # {}]>>
  /\ UNCHANGED <<variables, edges, binary_constraints, keys, pc, bi, queue,
                 ac3Ret, callDoms, retDoms, assignment, stack, searchResult,
                 total_backtrack_calls, total_failed_backtracks, searchDoms>>

\* --------------------------------------------------- backtracking_search

\* Lines 249-257: value for var agrees with every assigned variable: the
\* pair is looked up under (var, assigned_var) or else, mirrored, under
\* (assigned_var, var); with neither key stored there is nothing to check.
\* A faulty variant, without the elif branch: C1 tells it from IsConsistent.
IsConsistentFirstKeyOnly(var, value, asg, bc) ==
  \A assigned_var \in DOMAIN asg :
    <<var, assigned_var>> \in DOMAIN bc
      => <<value, asg[assigned_var]>> \in bc[<<var, assigned_var>>]

\* The code.
IsConsistent(var, value, asg, bc) ==
  \A assigned_var \in DOMAIN asg :
    IF <<var, assigned_var>> \in DOMAIN bc
      THEN <<value, asg[assigned_var]>> \in bc[<<var, assigned_var>>]
      ELSE <<assigned_var, var>> \in DOMAIN bc
             => <<asg[assigned_var], value>> \in bc[<<assigned_var, var>>]

\* Lines 137-138: the first declared variable that is not assigned.
\* A faulty variant, taking the last one: C17 tells it from SelectUnassigned.
SelectLastUnassigned(vs, asg) ==
  vs[CHOOSE i \in DOMAIN vs :
       /\ vs[i] \notin DOMAIN asg
       /\ \A j \in i + 1 .. Len(vs) : vs[j] \in DOMAIN asg]

\* The code.
SelectUnassigned(vs, asg) ==
  vs[CHOOSE i \in DOMAIN vs :
       /\ vs[i] \notin DOMAIN asg
       /\ \A j \in 1 .. i - 1 : vs[j] \in DOMAIN asg]

\* Line 141: list(self.domains[var]).  The values are small integers, which
\* a CPython set iterates in increasing order.
RECURSIVE Ascending(_)
Ascending(S) ==
  IF S = {} THEN <<>>
  ELSE LET m == CHOOSE x \in S : \A y \in S : x <= y
       IN <<m>> \o Ascending(S \ {m})

\* A faulty variant, leaving out the last value: C2 tells it from
\* OrderDomainValues.
OrderDomainValuesDropLast(S) ==
  IF S = {} THEN <<>> ELSE SubSeq(Ascending(S), 1, Cardinality(S) - 1)

\* The code.
OrderDomainValues(S) == Ascending(S)

\* Lines 175-219: the active branch is OPTION 2, no inference: the record
\* of removed values is the empty dict, and the domains are not touched.
MakeInference(var, value, asg) == EmptyMap

\* Lines 229-230: every removed value goes back into its domain.
RestoreInferences(doms, inferences) ==
  [v \in DOMAIN doms |->
     IF v \in DOMAIN inferences THEN doms[v] \cup inferences[v] ELSE doms[v]]

\* Lines 145 and 163 on the assignment dict.
Assign(asg, var, value) ==
  [v \in DOMAIN asg \cup {var} |-> IF v = var THEN value ELSE asg[v]]

\* A faulty variant of line 163, leaving the variable assigned: C14 tells
\* it from Unassign.
UnassignNothing(asg, var) == asg

\* The code.
Unassign(asg, var) == [v \in DOMAIN asg \ {var} |-> asg[v]]

Top == stack[Len(stack)]

\* Lines 129 and 168: backtracking_search() is called and calls backtrack({}).
SearchCall ==
  /\ pc = "idle"
  /\ searchResult = "pending"
  /\ pc' = "enter"
  /\ assignment' = EmptyMap
  /\ stack' = <<>>
  /\ searchDoms' = domains
  /\ UNCHANGED <<variables, domains, edges, binary_constraints, keys, bi,
                 queue, ac3Ret, callDoms, retDoms, searchResult,
                 total_backtrack_calls, total_failed_backtracks, reviseCall>>

\* Lines 131-138: backtrack(assignment) starts.  A complete assignment is
\* returned, and every caller up to backtracking_search() returns it at once
\* (lines 156-157, 168-171); otherwise the next variable is selected and its
\* values are listed.  The fields entry_domains and entry_assignment of a
\* stack entry record the domains and the assignment the invocation was
\* entered with.
BacktrackEnter ==
  /\ pc = "enter"
  /\ total_backtrack_calls' = total_backtrack_calls + 1
  /\ IF Cardinality(DOMAIN assignment) = Len(variables)
       THEN /\ pc' = "done"
            /\ searchResult' = "assignment"
            /\ stack' = <<>>
       ELSE LET var == SelectUnassigned(variables, assignment)
            IN /\ pc' = "loop"
               /\ stack' = Append(stack,
                             [var |-> var,
                              todo |-> OrderDomainValues(domains[var]),
                              inferences |-> EmptyMap,
                              entry_domains |-> domains,
                              entry_assignment |-> assignment])
               /\ UNCHANGED searchResult
  /\ UNCHANGED <<variables, domains, edges, binary_constraints, keys, bi,
                 queue, ac3Ret, callDoms, retDoms, assignment,
                 total_failed_backtracks,
                 searchDoms, reviseCall>>

\* Lines 141-154: the next value of the innermost loop.  An inconsistent
\* value is skipped; a consistent one is assigned, the inference is made and
\* backtrack is called on the grown assignment.
TryValue ==
  /\ pc = "loop"
  /\ Top.todo # <<>>
  /\ LET var == Top.var
         value == Head(Top.todo)
     IN IF IsConsistent(var, value, assignment, binary_constraints)
          THEN /\ assignment' = Assign(assignment, var, value)
               /\ stack' = [stack EXCEPT ![Len(stack)] =
                              [@ EXCEPT !.todo = Tail(@),
                                        !.inferences =
                                          MakeInference(var, value,
                                                        assignment')]]
               /\ pc' = "enter"
          ELSE /\ stack' = [stack EXCEPT ![Len(stack)].todo = Tail(@)]
               /\ UNCHANGED <<assignment, pc>>
  /\ UNCHANGED <<variables, domains, edges, binary_constraints, keys, bi,
                 queue, ac3Ret, callDoms, retDoms, searchResult,
                 total_backtrack_calls, total_failed_backtracks,
                 searchDoms, reviseCall>>

\* Lines 165-167, then 156-163 in the caller: the innermost loop is
\* exhausted, the invocation returns None; its caller restores the
\* inferences and removes its own variable from the assignment.  The root
\* invocation's None is what backtracking_search() returns.
BacktrackFail ==
  /\ pc = "loop"
  /\ Top.todo = <<>>
  /\ total_failed_backtracks' = total_failed_backtracks + 1
  /\ stack' = SubSeq(stack, 1, Len(stack) - 1)
  /\ IF Len(stack) = 1
       THEN /\ pc' = "done"
            /\ searchResult' = "None"
            /\ UNCHANGED <<domains, assignment>>
       ELSE LET caller == stack[Len(stack) - 1]
            IN /\ pc' = "loop"
               /\ domains' = RestoreInferences(domains, caller.inferences)
               /\ assignment' = Unassign(assignment, caller.var)
               /\ UNCHANGED searchResult
  /\ UNCHANGED <<variables, edges, binary_constraints, keys, bi, queue,
                 ac3Ret, callDoms, retDoms, total_backtrack_calls,
                 searchDoms, reviseCall>>

\* ------------------------------------------------------------------ Init

\* Edge lists of the small instances: pairs of distinct declared variables.
EdgePairs == {p \in Range(Names) \X Range(Names) : p[1] # p[2]}

\* A constructed instance: every edge joins two declared variables, each of
\* which has a domain entry.
Init ==
  /\ variables = Names
  /\ domains \in [Range(Names) -> SUBSET Values]
  /\ edges \in DistinctSeqs(EdgePairs, MaxEdges)
  /\ binary_constraints = BuildConstraints(domains, edges, Len(edges))
  /\ keys = BuildKeys(edges, Len(edges))
  /\ pc = "idle"
  /\ bi = Len(edges) + 1
  /\ queue = <<>>
  /\ ac3Ret = <<>>
  /\ callDoms = <<>>
  /\ retDoms = <<>>
  /\ assignment = EmptyMap
  /\ stack = <<>>
  /\ searchResult = "pending"
  /\ total_backtrack_calls = 0
  /\ total_failed_backtracks = 0
  /\ searchDoms = EmptyMap
  /\ reviseCall = <<>>

NextAC3 == Ac3Call \/ Ac3Step \/ Ac3ReturnTrue

SpecAC3 == Init /\ [][NextAC3]_vars

NextSearch == SearchCall \/ BacktrackEnter \/ TryValue \/ BacktrackFail

SpecSearch == Init /\ [][NextSearch]_vars

Next == NextAC3 \/ NextSearch

Spec == Init /\ [][Next]_vars

NextRevise == ReviseCall

SpecRevise == Init /\ [][NextRevise]_vars

\* ----------------------------------------------------------- constructor
\* The constructor on arguments that need not be well formed: the declared
\* variables are Names or Names without its last element, any set of names
\* has a domain entry, and the edges join any two names.

InitBuild ==
  /\ variables \in {Names, SubSeq(Names, 1, Len(Names) - 1)}
  /\ domains \in UNION {[K -> SUBSET Values] : K \in SUBSET Range(Names)}
  /\ edges \in DistinctSeqs(EdgePairs, MaxEdges)
  /\ binary_constraints = EmptyMap
  /\ keys = <<>>
  /\ pc = "build"
  /\ bi = 1
  /\ queue = <<>>
  /\ ac3Ret = <<>>
  /\ callDoms = <<>>
  /\ retDoms = <<>>
  /\ assignment = EmptyMap
  /\ stack = <<>>
  /\ searchResult = "pending"
  /\ total_backtrack_calls = 0
  /\ total_failed_backtracks = 0
  /\ searchDoms = EmptyMap
  /\ reviseCall = <<>>

NextBuild == BuildEdge \/ BuildDone

SpecBuild == InitBuild /\ [][NextBuild]_vars

\* ---------------------------------------------------------- Latin square

\* Lines 262-275: alldiff, the pairs (variables[i], variables[j]), i < j, in
\* the order of the list comprehension.
RECURSIVE AllDiffFrom(_, _)
AllDiffFrom(vs, i) ==
  IF i >= Len(vs) THEN <<>>
  ELSE [k \in 1 .. Len(vs) - i |-> <<vs[i], vs[i + k]>>]
         \o AllDiffFrom(vs, i + 1)

\* A faulty variant, the outer index starting one too far: C12 tells it
\* from alldiff.
alldiffSkippingFirst(vs) == AllDiffFrom(vs, 2)

\* The code.
alldiff(vs) == AllDiffFrom(vs, 1)

\* src/test_ac3.py lines 21-23, 28, 31, 43: the cell names.
Cell(row, col) == "X" \o ToString(row) \o ToString(col)

\* src/test_ac3.py line 43: the variables in row-major order.
LatinCells ==
  [i \in 1 .. LatinWidth * LatinWidth |->
     Cell(((i - 1) \div LatinWidth) + 1, ((i - 1) % LatinWidth) + 1)]

RECURSIVE Concat(_, _)
Concat(ss, n) == IF n = 0 THEN <<>> ELSE Concat(ss, n - 1) \o ss[n]

\* src/test_ac3.py lines 25-31: the row edges, then the column edges.
LatinEdges ==
  LET rows == [r \in 1 .. LatinWidth |->
                 alldiff([c \in 1 .. LatinWidth |-> Cell(r, c)])]
      cols == [c \in 1 .. LatinWidth |->
                 alldiff([r \in 1 .. LatinWidth |-> Cell(r, c)])]
  IN Concat(rows, LatinWidth) \o Concat(cols, LatinWidth)

\* src/test_ac3.py lines 17-23: one cell holds a given digit, every other
\* cell has the full domain.
LatinDomains(fixed, value) ==
  [cell \in Range(LatinCells) |->
     IF cell = fixed THEN {value} ELSE 1 .. LatinWidth]

InitLatin ==
  /\ variables = LatinCells
  /\ \E fixed \in Range(LatinCells), value \in 1 .. LatinWidth :
       domains = LatinDomains(fixed, value)
  /\ edges = LatinEdges
  /\ binary_constraints = EmptyMap
  /\ keys = <<>>
  /\ pc = "build"
  /\ bi = 1
  /\ queue = <<>>
  /\ ac3Ret = <<>>
  /\ callDoms = <<>>
  /\ retDoms = <<>>
  /\ assignment = EmptyMap
  /\ stack = <<>>
  /\ searchResult = "pending"
  /\ total_backtrack_calls = 0
  /\ total_failed_backtracks = 0
  /\ searchDoms = EmptyMap
  /\ reviseCall = <<>>

NextLatin == BuildEdge \/ BuildDone \/ Ac3Call \/ Ac3Step \/ Ac3ReturnTrue

SpecLatin == InitLatin /\ [][NextLatin]_vars

\* ---------------------------------------------------------------- alldiff
\* alldiff called by itself on a list of pairwise distinct names: the list
\* is held in variables and the returned list in edges, as in
\* src/test_ac3.py, where alldiff's results make up the edges argument.

AllDiffNames == {Cell(1, col) : col \in 1 .. MaxList}

InitAllDiff ==
  /\ variables \in DistinctSeqs(AllDiffNames, MaxList)
  /\ domains = EmptyMap
  /\ edges = <<>>
  /\ binary_constraints = EmptyMap
  /\ keys = <<>>
  /\ pc = "alldiff"
  /\ bi = 1
  /\ queue = <<>>
  /\ ac3Ret = <<>>
  /\ callDoms = <<>>
  /\ retDoms = <<>>
  /\ assignment = EmptyMap
  /\ stack = <<>>
  /\ searchResult = "pending"
  /\ total_backtrack_calls = 0
  /\ total_failed_backtracks = 0
  /\ searchDoms = EmptyMap
  /\ reviseCall = <<>>

\* Line 275: alldiff returns its list.
AllDiffCall ==
  /\ pc = "alldiff"
  /\ edges' = alldiff(variables)
  /\ pc' = "returned"
  /\ UNCHANGED <<variables, domains, binary_constraints, keys, bi, queue,
                 ac3Ret, callDoms, retDoms, assignment, stack, searchResult,
                 total_backtrack_calls, total_failed_backtracks, searchDoms,
                 reviseCall>>

NextAllDiff == AllDiffCall

SpecAllDiff == InitAllDiff /\ [][NextAllDiff]_vars

\* ---------------------------------------------------------------- claims

\* The complete assignments over doms that satisfy every inequality edge.
Solutions(doms) ==
  {a \in [Range(variables) -> Values] :
     /\ \A v \in Range(variables) : a[v] \in doms[v]
     /\ \A i \in DOMAIN edges : a[edges[i][1]] # a[edges[i][2]]}

\* Every value of x in doms has a different value of y beside it.
ArcSupported(doms, x, y) ==
  \A v \in doms[x] : \E w \in doms[y] : v # w

\* C1: an assignment returned by backtracking_search() maps every declared
\* variable to a value of its domain, and for every stored key (A, B) with
\* A distinct from B the pair of assigned values is in the key's
\* compatible-pairs set, so the two values differ.
C1_ReturnedAssignmentSound ==
  searchResult = "assignment" =>
    /\ DOMAIN assignment = Range(variables)
    /\ \A v \in Range(variables) : assignment[v] \in domains[v]
    /\ \A k \in DOMAIN binary_constraints :
         k[1] # k[2] =>
           /\ <<assignment[k[1]], assignment[k[2]]>> \in binary_constraints[k]
           /\ assignment[k[1]] # assignment[k[2]]

\* C1 happens: an assignment is returned for an instance with at least two
\* stored keys, after at least one invocation of backtrack failed.
C1_Witness ==
  /\ searchResult = "assignment"
  /\ Len(keys) >= 2
  /\ total_failed_backtracks > 0

\* C2: backtracking_search() returns an assignment exactly when some
\* complete assignment satisfies every inequality edge, and None exactly
\* when none does.
C2_SearchComplete ==
  pc = "done" =>
    /\ searchResult = "assignment" <=> Solutions(domains) # {}
    /\ searchResult = "None" <=> Solutions(domains) = {}

\* C2 happens: three pairwise unequal variables with domain {1, 2} each,
\* and the search has returned None.
C2_Witness ==
  /\ searchResult = "None"
  /\ \A v \in Range(variables) : domains[v] = {1, 2}
  /\ \A x, y \in Range(variables) :
       x # y => <<x, y>> \in Range(keys) \/ <<y, x>> \in Range(keys)

\* C3: when ac_3() has returned True, for every stored key (A, B) every
\* value left in A's domain has a different value in B's domain and every
\* value left in B's domain has a different value in A's domain.
C3_ArcConsistentBothDirections ==
  \A n \in DOMAIN ac3Ret :
    ac3Ret[n] =>
      \A k \in DOMAIN binary_constraints :
        /\ ArcSupported(retDoms[n], k[1], k[2])
        /\ ArcSupported(retDoms[n], k[2], k[1])

\* C4: a call of ac_3() made while some variable's domain is empty returns
\* False, whether that variable has no constraint, is the first element of
\* a stored key or the second.
C4_EmptyDomainReturnsFalse ==
  \A n \in DOMAIN ac3Ret :
    (\E v \in DOMAIN callDoms[n] : callDoms[n][v] = {}) => ~ac3Ret[n]

C6_SolutionsKept ==
  Len(callDoms) >= 1 =>
    LET n == Len(callDoms)
        sols == Solutions(callDoms[n])
    IN /\ \A a \in sols : \A v \in Range(variables) : a[v] \in domains[v]
       /\ Len(ac3Ret) = n /\ sols # {} => ac3Ret[n]

\* C6 happens: ac_3() has returned after removing a value from an instance
\* that has a solution.
C6_Witness ==
  /\ Len(ac3Ret) >= 1
  /\ Solutions(callDoms[1]) # {}
  /\ retDoms[1] # callDoms[1]

\* C7: while ac_3() runs and after it returned, every variable's domain is
\* a subset of its domain when ac_3() was called.
C7_DomainsNeverGrow ==
  Len(callDoms) >= 1 =>
    \A v \in DOMAIN domains : domains[v] \subseteq callDoms[Len(callDoms)][v]

\* C7 happens: ac_3() is running, has removed a value and has arcs left.
C7_Witness ==
  /\ pc = "ac3"
  /\ queue # <<>>
  /\ domains # callDoms[Len(callDoms)]

\* C8: the constructor returns no instance when an edge names a variable
\* that is missing from the declared variables or has no domain entry.
C8_UnknownVariableFails ==
  pc = "idle" =>
    \A i \in DOMAIN edges : \A j \in 1 .. 2 :
      /\ edges[i][j] \in Range(variables)
      /\ edges[i][j] \in DOMAIN domains

\* C9, as claimed: every pair (x, y) stored under key (A, B) has x in A's
\* domain and y in B's domain.
C9_PairsWithinProduct ==
  pc = "idle" =>
    \A k \in DOMAIN binary_constraints : \A p \in binary_constraints[k] :
      p[1] \in domains[k[1]] /\ p[2] \in domains[k[2]]

\* C9, amended: every pair (x, y) stored under key (A, B) has x in A's
\* domain and y in B's domain, or y in A's domain and x in B's domain.
C9_PairsWithinProductOrMirror ==
  pc = "idle" =>
    \A k \in DOMAIN binary_constraints : \A p \in binary_constraints[k] :
      \/ p[1] \in domains[k[1]] /\ p[2] \in domains[k[2]]
      \/ p[2] \in domains[k[1]] /\ p[1] \in domains[k[2]]

\* C9 happens: the constructor returned an instance with a key (A, B) whose
\* two domains differ and whose set holds a pair outside A's domain x B's
\* domain.
C9_Witness ==
  /\ pc = "idle"
  /\ \E k \in DOMAIN binary_constraints : \E p \in binary_constraints[k] :
       /\ domains[k[1]] # domains[k[2]]
       /\ ~(p[1] \in domains[k[1]] /\ p[2] \in domains[k[2]])

\* C10: in the Latin square with one cell fixed to one value, the first
\* ac_3() has, when it returns, removed that value from the domain of a cell
\* in the fixed cell's row or column.
C10_FixedValueRemovedFromNeighbour ==
  Len(ac3Ret) >= 1 =>
    \A row, col \in 1 .. LatinWidth :
      Cardinality(callDoms[1][Cell(row, col)]) = 1 =>
        \E row2, col2 \in 1 .. LatinWidth :
          /\ row2 = row \/ col2 = col
          /\ <<row2, col2>> # <<row, col>>
          /\ ~(callDoms[1][Cell(row, col)]
                 \subseteq retDoms[1][Cell(row2, col2)])

\* C11: ac_3() returns False exactly in the iteration whose _revise removed
\* values from the revised variable and left its domain empty; that
\* iteration ends the call at once, whatever is left on the queue, and some
\* domain is empty at that moment.  Every other iteration goes on with the
\* loop, and True is returned only from an empty queue, with the domains as
\* they are.
C11_FalseExactlyOnEmptyingRevise ==
  [][pc = "ac3" =>
       LET xi == Head(queue)[1]
           emptied == /\ queue # <<>>
                      /\ domains'[xi] # domains[xi]
                      /\ domains'[xi] = {}
           returned == Len(ac3Ret') = Len(ac3Ret) + 1
           value == ac3Ret'[Len(ac3Ret')]
       IN /\ emptied <=> (returned /\ value = FALSE)
          /\ (returned /\ value = FALSE) =>
               /\ pc' = "idle"
               /\ \E v \in DOMAIN domains' : domains'[v] = {}
          /\ (returned /\ value = TRUE) =>
               /\ queue = <<>>
               /\ domains' = domains
          /\ queue = <<>> => (returned /\ value = TRUE)
          /\ returned <=> pc' = "idle"]_vars

\* C11 happens: ac_3() has returned False from an instance none of whose
\* domains was empty at the call, with arcs still waiting on the queue.
C11_Witness ==
  /\ pc = "idle"
  /\ Len(ac3Ret) = 1
  /\ ac3Ret[1] = FALSE
  /\ queue # <<>>
  /\ \A v \in DOMAIN callDoms[1] : callDoms[1][v] # {}

\* C12: for a list of n pairwise distinct variables alldiff returns
\* n(n-1)/2 pairs; every pair (earlier, later) of the list is in the result
\* exactly once, every element of the result is such a pair, so no pair
\* joins a variable to itself, none is repeated and none comes back
\* mirrored; for n = 0 and n = 1 the result is empty.
C12_AllDiffExactPairs ==
  pc = "returned" =>
    LET n == Len(variables)
    IN /\ 2 * Len(edges) = n * (n - 1)
       /\ \A i \in 1 .. n : \A j \in i + 1 .. n :
            Cardinality({k \in DOMAIN edges :
                           edges[k] = <<variables[i], variables[j]>>}) = 1
       /\ \A k \in DOMAIN edges :
            /\ edges[k][1] # edges[k][2]
            /\ \E i \in 1 .. n : \E j \in i + 1 .. n :
                 edges[k] = <<variables[i], variables[j]>>
       /\ \A k, l \in DOMAIN edges :
            k # l => /\ edges[k] # edges[l]
                     /\ edges[k] # <<edges[l][2], edges[l][1]>>
       /\ n <= 1 => edges = <<>>

\* C12 happens: alldiff has returned for a list of at least three variables.
C12_Witness ==
  /\ pc = "returned"
  /\ Len(variables) >= 3
  /\ Len(edges) >= 3

\* C13: _revise(xi, xj) on a pair of variables for which neither key
\* (xi, xj) nor key (xj, xi) is stored removes no value from xi's domain,
\* leaves every domain as it was, and returns False.
C13_UnconstrainedReviseNoChange ==
  \A n \in DOMAIN reviseCall :
    LET call == reviseCall[n]
    IN (/\ <<call.xi, call.xj>> \notin DOMAIN binary_constraints
        /\ <<call.xj, call.xi>> \notin DOMAIN binary_constraints)
         => /\ domains = call.before
            /\ call.returned = FALSE

\* C14: whenever the loop of an invocation of backtrack is between two
\* values, so after every branch that ended in failure and at the moment the
\* invocation itself fails, the domains and the assignment are the ones the
\* invocation was entered with; and when backtracking_search() has returned
\* None the assignment is empty and every domain is as it was at the call.
C14_FailureRestores ==
  /\ pc = "loop" =>
       /\ domains = Top.entry_domains
       /\ assignment = Top.entry_assignment
  /\ searchResult = "None" =>
       /\ assignment = EmptyMap
       /\ domains = searchDoms

\* C14 happens: the search has returned None after nested invocations
\* failed, on an instance without an empty domain.
C14_Witness ==
  /\ searchResult = "None"
  /\ total_failed_backtracks >= 3
  /\ \A v \in DOMAIN domains : domains[v] # {}

\* ac_3() runs to its return without being held up: a call that can take a
\* step of its loop, or return True, eventually does.
SpecAC3Fair == SpecAC3 /\ WF_vars(Ac3Step) /\ WF_vars(Ac3ReturnTrue)

\* C15: every call of ac_3() returns, and while it runs the queue holds
\* more than the rest of what it held only after a step that took at least
\* one value out of a domain, and no step puts a value into a domain.
C15_Ac3Terminates ==
  /\ (pc = "ac3") ~> (pc = "idle")
  /\ [][(pc = "ac3" /\ pc' = "ac3") =>
          /\ \A v \in DOMAIN domains : domains'[v] \subseteq domains[v]
          /\ queue' # Tail(queue) => domains' # domains]_vars

\* C15 happens: ac_3() is running, a revision has removed a value, and an
\* arc that is not a stored key has been put on the queue.
C15_Witness ==
  /\ pc = "ac3"
  /\ domains # callDoms[Len(callDoms)]
  /\ \E i \in DOMAIN queue : queue[i] \notin Range(keys)

\* backtracking_search() runs to its return without being held up.
SpecSearchFair ==
  /\ SpecSearch
  /\ WF_vars(BacktrackEnter)
  /\ WF_vars(TryValue)
  /\ WF_vars(BacktrackFail)

\* The number of nested invocations of backtrack: the ones on the stack and
\* the one that is just starting.
Depth == Len(stack) + (IF pc = "enter" THEN 1 ELSE 0)

\* C16: a search that has started returns, with an assignment or with None;
\* at every moment at most (number of variables + 1) invocations of
\* backtrack are nested; and when an invocation starts, the assignment has
\* as many entries as the nesting depth minus one.
C16_SearchTerminates ==
  /\ (pc \in {"enter", "loop"}) ~>
       (pc = "done" /\ searchResult \in {"assignment", "None"})
  /\ [](Depth <= Len(variables) + 1)
  /\ [](pc = "enter" => Cardinality(DOMAIN assignment) = Depth - 1)

\* C16 happens: the deepest invocation, number of variables + 1, is
\* starting, after an invocation has failed.
C16_Witness ==
  /\ pc = "enter"
  /\ Depth = Len(variables) + 1
  /\ total_failed_backtracks >= 1

\* The place of a value in the order in which backtrack tries the values of
\* var.
ValueIndex(var, value) ==
  LET order == OrderDomainValues(domains[var])
  IN CHOOSE k \in DOMAIN order : order[k] = value

\* Complete assignment a comes before b: at the first declared variable on
\* which they differ, a's value is tried before b's.
LexBefore(a, b) ==
  \E i \in DOMAIN variables :
    /\ ValueIndex(variables[i], a[variables[i]])
         < ValueIndex(variables[i], b[variables[i]])
    /\ \A j \in 1 .. i - 1 : a[variables[j]] = b[variables[j]]

\* C17: the assignment returned by backtracking_search() is a solution, no
\* solution comes before it in the order by declared variable and then by
\* value iteration, and once it is returned no further value is tried.
C17_FirstSolutionWins ==
  searchResult = "assignment" =>
    /\ assignment \in Solutions(domains)
    /\ \A s \in Solutions(domains) : ~LexBefore(s, assignment)
    /\ ~ENABLED TryValue

\* C17 happens: an assignment is returned that is not the only solution,
\* after at least one invocation failed.
C17_Witness ==
  /\ searchResult = "assignment"
  /\ Cardinality(Solutions(domains)) >= 2
  /\ total_failed_backtracks >= 1
  /\ edges # <<>>

\* C18: no step of ac_3(), of the _revise it calls, or of
\* backtracking_search() changes binary_constraints, the order of its keys,
\* the variable list or the edge list the instance was built from.
C18_ConstraintMapImmutable ==
  [][/\ binary_constraints' = binary_constraints
     /\ keys' = keys
     /\ variables' = variables
     /\ edges' = edges]_vars

\* C18 happens: ac_3() has removed values and the search has returned, on an
\* instance with at least two stored keys.
C18_Witness ==
  /\ pc = "done"
  /\ ac3Ret # <<>>
  /\ retDoms[1] # callDoms[1]
  /\ Len(keys) >= 2

\* C19: when backtracking_search() returns after ac_3() has been called, it
\* returns an assignment if and only if the instance with the domains it had
\* before the first ac_3() call has a solution; a returned assignment is
\* such a solution, so it satisfies every edge and takes its values from
\* those original domains; and if a call of ac_3() returned False the
\* search returns None.
C19_Ac3KeepsSearchAnswer ==
  (pc = "done" /\ ac3Ret # <<>>) =>
    /\ searchResult = "assignment" <=> Solutions(callDoms[1]) # {}
    /\ searchResult = "assignment" => assignment \in Solutions(callDoms[1])
    /\ (\E n \in DOMAIN ac3Ret : ac3Ret[n] = FALSE) => searchResult = "None"

\* C19 happens: ac_3() returned True after removing values, and the search
\* then returned an assignment after at least one invocation failed.
C19_Witness ==
  /\ searchResult = "assignment"
  /\ Len(ac3Ret) = 1
  /\ ac3Ret[1] = TRUE
  /\ retDoms[1] # callDoms[1]
  /\ total_failed_backtracks >= 1

\* C20: whenever ac_3() returned True, for every stored key (Xi, Xj) every
\* value left in Xi's domain has a value in Xj's domain with which it forms
\* a pair of the key's compatible-pairs set.
C20_StoredKeysSupportedOnTrue ==
  \A n \in DOMAIN ac3Ret :
    ac3Ret[n] = TRUE =>
      \A k \in DOMAIN binary_constraints :
        \A v \in retDoms[n][k[1]] :
          \E w \in retDoms[n][k[2]] : <<v, w>> \in binary_constraints[k]

\* C20 happens: ac_3() returned True after taking values from the domains
\* of two different variables, one of them the first element of a stored
\* key whose second element also lost a value.
C20_Witness ==
  /\ Len(ac3Ret) >= 1
  /\ ac3Ret[1] = TRUE
  /\ \E k \in DOMAIN binary_constraints :
       /\ retDoms[1][k[1]] # callDoms[1][k[1]]
       /\ retDoms[1][k[2]] # callDoms[1][k[2]]
       /\ retDoms[1][k[1]] # {}

====
